---- MODULE Spec2Model ----
(***************************************************************************)
(* State machine of the headless Message component                        *)
(* (src/src/components/Message.tsx).                                      *)
(*                                                                         *)
(* One component instance is modelled.  Its hook state (status,            *)
(* messageOptions, timerRef) is the state React has committed; a setState  *)
(* call made by a handler or an effect is held in pendingOptions /         *)
(* pendingStatus until the next render pass applies it.  A render pass is  *)
(* the function body (lines 141-254) followed by its passive effects       *)
(* (lines 214-240), whose dependency arrays are compared with the values   *)
(* of the previous pass.                                                   *)
(***************************************************************************)
EXTENDS Integers, Sequences, FiniteSets, TLC

VARIABLES
    phase,          \* "init" | "mounted" | "unmounted" | "crashed"
    props,          \* the props of the last render pass
    id,             \* useId()
    status,         \* useState('idle')
    messageOptions, \* useState({visible: false}), as committed
    pendingOptions, \* <<>> or <<options>>: setMessageOptions not yet rendered
    pendingStatus,  \* TRUE when setStatus('succeeded') is not yet rendered
    timerRef,       \* timerRef.current: 0 (undefined) or a timer handle
    timers,         \* the host's pending setTimeout callbacks
    output,         \* what the last render pass handed out and returned
    calls,          \* the caller's callbacks invoked by the last step, in order
    last,           \* the last step taken
    sync,           \* TRUE between a discrete event and its synchronous re-render
    quiet,          \* TRUE once the environment has stopped interacting
    periodFires,    \* timer callbacks run since the visible state last changed
    autoToggles,    \* timer callbacks run since the environment went quiet
    streak          \* the last two handler invocations, if nothing came between them

vars == <<phase, props, id, status, messageOptions, pendingOptions, pendingStatus,
          timerRef, timers, output, calls, last, sync, quiet, periodFires, autoToggles,
          streak>>

-----------------------------------------------------------------------------
(* Bounds and value sets *)

MaxDuration == 1

Undefined == <<>>
Some(x) == <<x>>

OptBool == {Undefined, Some(TRUE), Some(FALSE)}
Durations == 0..MaxDuration            \* 0 also stands for an absent duration
VisibleCallbacks == {"undefined", "f", "g"}
CloseCallbacks == {"undefined", "h"}
EventType == {"onClick", "onPress", "onTouchEnd"}
UserEvents == {"e1"}
NoEvent == "undefined"
TimeoutEvent == "NodeJS.Timeout"
Ids == {":r0:"}

\* BaseMessageProps / MessageProps: the props the component reads.
\* handlers is the set of interaction callbacks the caller supplied (the keys
\* among onClick, onPress, onTouchEnd that Object.keys(props) lists).
Props ==
    [visible : OptBool, defaultVisible : OptBool, duration : Durations,
     handlers : SUBSET EventType, onVisible : VisibleCallbacks,
     onClose : CloseCallbacks, renderContainer : BOOLEAN]

NoOutput == [result |-> "none", main |-> <<>>, container |-> <<>>]
NoProps == [visible |-> Undefined, defaultVisible |-> Undefined, duration |-> 0,
            handlers |-> {}, onVisible |-> "undefined", onClose |-> "undefined",
            renderContainer |-> TRUE]

-----------------------------------------------------------------------------
(* The component's functions *)

\* eventNames without the filter on the keys of props: every interaction is bound
EventNames_All(p) == {"onClick", "onPress", "onTouchEnd"}

\* const eventNames = Object.keys(props).filter(key => bindEvenNames.includes(key))
EventNames(p) == p.handlers \cap {"onClick", "onPress", "onTouchEnd"}

\* const childrenProps = {...args, id, visible, defaultVisible}
ChildrenProps(p, i) ==
    [id |-> i, visible |-> p.visible, defaultVisible |-> p.defaultVisible]

\* handleMessageOptionsChange with the !options.visible guard of onClose dropped
HandleMessageOptionsChange_AlwaysClose(onVisible, onClose, options) ==
    (IF onVisible # "undefined"
        THEN <<[fn |-> "onVisible", callee |-> onVisible, options |-> options]>>
        ELSE <<>>)
    \o
    (IF onClose # "undefined"
        THEN <<[fn |-> "onClose", callee |-> onClose, options |-> options]>>
        ELSE <<>>)

\* handleMessageOptionsChange: onVisible?.(options); !options.visible && onClose?.(options)
HandleMessageOptionsChange(onVisible, onClose, options) ==
    (IF onVisible # "undefined"
        THEN <<[fn |-> "onVisible", callee |-> onVisible, options |-> options]>>
        ELSE <<>>)
    \o
    (IF ~options.visible /\ onClose # "undefined"
        THEN <<[fn |-> "onClose", callee |-> onClose, options |-> options]>>
        ELSE <<>>)

\* const clearTimer = () => timerRef.current && clearInterval(timerRef.current)
ClearTimer(ref, tms) == {t \in tms : t.handle # ref}

\* handleResponse without its clearTimer() call
ResponseTimers_Kept(ref, tms) == tms

\* clearTimer() as handleResponse's first statement
ResponseTimers(ref, tms) == ClearTimer(ref, tms)

\* nextVisible without the negation
ToggledVisible_Same(v) == v

\* const nextVisible = !messageOptions.visible   (handleResponse)
ToggledVisible(v) == ~v

\* handleResponse queueing a constant: every invocation shows the message
ResponseOptions_Shown(v, e) == [event |-> e, visible |-> TRUE]

\* handleResponse's options: {event: e, visible: nextVisible}
ResponseOptions(v, e) == [event |-> e, visible |-> ToggledVisible(v)]

\* callback?.(e)
CallbackCall(name, supplied, e) ==
    IF supplied THEN <<[fn |-> name, callee |-> name, options |-> [event |-> e]]>>
    ELSE <<>>

\* handleResponse calling the caller's callback before handleMessageOptionsChange
ResponseCalls_CallbackFirst(v, onVisible, onClose, e, name, supplied) ==
    CallbackCall(name, supplied, e)
    \o HandleMessageOptionsChange(onVisible, onClose, ResponseOptions(v, e))

\* the calls one run of handleResponse makes, in order
ResponseCalls(v, onVisible, onClose, e, name, supplied) ==
    HandleMessageOptionsChange(onVisible, onClose, ResponseOptions(v, e))
    \o CallbackCall(name, supplied, e)

\* nextVisible reading defaultVisible whatever the status
ReconcileTarget_DefaultAlways(st, visible, defaultVisible) ==
    IF defaultVisible # Undefined THEN defaultVisible ELSE visible

\* const nextVisible = status !== 'idle' ? visible : defaultVisible ?? visible
ReconcileTarget(st, visible, defaultVisible) ==
    IF st # "idle" THEN visible
    ELSE IF defaultVisible # Undefined THEN defaultVisible ELSE visible

\* isUpdate testing the wrong status
IsUpdate_Idle(current, nextVisible, st) ==
    current # nextVisible /\ st = "idle"

\* const isUpdate = currentOptions.visible !== nextVisible && status === 'succeeded'
IsUpdate(current, nextVisible, st) ==
    current # nextVisible /\ st = "succeeded"

\* the timer effect's condition testing the wrong status
ShouldArm_Idle(visible, st) == visible /\ st = "idle"

\* the timer effect's condition without the test of messageOptions.visible
ShouldArm_Hidden(visible, st) == st = "succeeded"

\* messageOptions.visible && status === 'succeeded' && (timerRef.current = setTimeout(...))
ShouldArm(visible, st) == visible /\ st = "succeeded"

\* setTimeout returns a handle it has not handed out to a live or just-used timer
FreshHandle(ref, tms) ==
    CHOOSE h \in 1..(Cardinality(tms) + 2) : h # ref /\ \A t \in tms : t.handle # h

\* setTimeout(() => handleResponse({type: 'NodeJS.Timeout'}), duration): the
\* callback closes over the handleResponse of the pass that armed it
TimerOf(h, p, visible) ==
    [handle |-> h, delay |-> p.duration, visible |-> visible,
     onVisible |-> p.onVisible, onClose |-> p.onClose]


-----------------------------------------------------------------------------
(* One render pass: function body, commit, passive effects *)

\* what a step did: its operation, the handler and event it ran with, how many
\* pending timers it cancelled and whether it armed a new one
Step(op, name, e, before, after, armed, changed) ==
    [op |-> op, name |-> name, event |-> e,
     cancelled |-> Cardinality(before \ after), armed |-> armed, changed |-> changed]

\* the props a re-render receives with a new value
ChangedProps(p, isMount) ==
    IF isMount THEN {} ELSE {f \in DOMAIN p : p[f] # props[f]}

\* the state a render pass reads from its hooks: queued setState calls applied
RenderedOptions == IF pendingOptions # <<>> THEN pendingOptions[1] ELSE messageOptions
RenderedStatus == IF pendingStatus THEN "succeeded" ELSE status

\* useCallback(..., [onClose, onVisible]) returns a new handleMessageOptionsChange
OptionsChangeRenewed(p) ==
    p.onClose # props.onClose \/ p.onVisible # props.onVisible

\* useCallback(..., [handleMessageOptionsChange, messageOptions.visible])
ResponseRenewed(p) ==
    OptionsChangeRenewed(p) \/ RenderedOptions.visible # messageOptions.visible

\* [defaultVisible, handleMessageOptionsChange, status, visible]
ReconcileDepsChanged(p, isMount) ==
    \/ isMount
    \/ p.defaultVisible # props.defaultVisible
    \/ OptionsChangeRenewed(p)
    \/ RenderedStatus # status
    \/ p.visible # props.visible

\* [duration, handleResponse, messageOptions.visible, status]
TimerDepsChanged(p, isMount) ==
    \/ isMount
    \/ p.duration # props.duration
    \/ ResponseRenewed(p)
    \/ RenderedOptions.visible # messageOptions.visible
    \/ RenderedStatus # status

\* renderMain({...childrenProps, ref, ...bindEvents(eventNames, handleCallback)})
MainProps(p, i) ==
    [id |-> ChildrenProps(p, i).id,
     visible |-> ChildrenProps(p, i).visible,
     defaultVisible |-> ChildrenProps(p, i).defaultVisible,
     handlers |-> EventNames(p)]

\* renderContainer({...childrenProps, children: main})
ContainerProps(p, i) ==
    [id |-> ChildrenProps(p, i).id,
     visible |-> ChildrenProps(p, i).visible,
     defaultVisible |-> ChildrenProps(p, i).defaultVisible,
     children |-> [node |-> "main", props |-> MainProps(p, i)]]

\* const main = renderMain(...); const container = renderContainer(...);
\* return <>{container}</>.  Calling an absent renderContainer throws.
RenderOutput(p, i) ==
    IF p.renderContainer
    THEN [result |-> "container", main |-> <<MainProps(p, i)>>,
          container |-> <<ContainerProps(p, i)>>]
    ELSE [result |-> "throw", main |-> <<MainProps(p, i)>>, container |-> <<>>]

\* the timer effect without its cleanup
CleanupTimers_Missing(ref, tms) == tms

\* return () => clearTimer(): runs before the timer effect re-runs
CleanupTimers(ref, tms) == ClearTimer(ref, tms)

\* an unmount that leaves the pending timer alone
TeardownTimers_Missing(ref, tms) == tms

\* return () => clearTimer(): runs when the component is unmounted
TeardownTimers(ref, tms) == ClearTimer(ref, tms)

\* the reconciliation effect adopting a value without notifying
ReconcileCalls_Silent(p, current, st) == <<>>

\* the reconciliation effect's notification: isUpdate && handleMessageOptionsChange(nextOptions)
ReconcileCalls(p, current, st) ==
    LET nv == ReconcileTarget(st, p.visible, p.defaultVisible) IN
    IF nv # Undefined /\ IsUpdate(current, nv[1], st)
    THEN HandleMessageOptionsChange(p.onVisible, p.onClose,
                                    [event |-> NoEvent, visible |-> nv[1]])
    ELSE <<>>

\* the reconciliation effect without its typeof nextVisible === 'boolean' test
ReconcileOptions_Coerced(p, st) ==
    <<[event |-> NoEvent,
       visible |-> ReconcileTarget(st, p.visible, p.defaultVisible) = Some(TRUE)]>>

\* the reconciliation effect's setMessageOptions(currentOptions => nextOptions)
ReconcileOptions(p, st) ==
    LET nv == ReconcileTarget(st, p.visible, p.defaultVisible) IN
    IF nv # Undefined THEN <<[event |-> NoEvent, visible |-> nv[1]]>> ELSE <<>>

\* A render pass whose render throws: React removes the component, which runs
\* the cleanup of the effects that had run.
FailedPass(p, i, isMount, op) ==
    /\ phase' = "crashed"
    /\ props' = p
    /\ id' = i
    /\ output' = RenderOutput(p, i)
    /\ timers' = IF isMount THEN timers ELSE TeardownTimers(timerRef, timers)
    /\ calls' = <<>>
    /\ pendingOptions' = <<>>
    /\ pendingStatus' = FALSE
    /\ sync' = FALSE
    /\ last' = Step(op, "none", NoEvent, timers, timers', FALSE, ChangedProps(p, isMount))
    /\ streak' = <<>>
    /\ UNCHANGED <<status, messageOptions, timerRef, quiet, periodFires, autoToggles>>

CompletedPass(p, i, isMount, op) ==
    LET mo == RenderedOptions
        st == RenderedStatus
        reconcile == ReconcileDepsChanged(p, isMount)
        rearm == TimerDepsChanged(p, isMount)
        cleaned == IF rearm /\ ~isMount THEN CleanupTimers(timerRef, timers) ELSE timers
        arm == rearm /\ ShouldArm(mo.visible, st)
        handle == FreshHandle(timerRef, cleaned)
    IN
    /\ phase' = "mounted"
    /\ props' = p
    /\ id' = i
    /\ output' = RenderOutput(p, i)
    /\ messageOptions' = mo
    /\ status' = st
    /\ calls' = IF reconcile THEN ReconcileCalls(p, mo.visible, st) ELSE <<>>
    /\ pendingOptions' = IF reconcile THEN ReconcileOptions(p, st) ELSE <<>>
    /\ pendingStatus' = (reconcile /\ st = "idle")
    /\ timers' = IF arm THEN cleaned \cup {TimerOf(handle, p, mo.visible)} ELSE cleaned
    /\ timerRef' = IF arm THEN handle ELSE timerRef
    /\ sync' = FALSE
    /\ periodFires' = IF mo.visible # messageOptions.visible THEN 0 ELSE periodFires
    /\ last' = Step(op, "none", NoEvent, timers, cleaned, arm, ChangedProps(p, isMount))
    /\ streak' = IF sync THEN streak ELSE <<>>
    /\ UNCHANGED <<quiet, autoToggles>>

RenderPass(p, i, isMount, op) ==
    IF RenderOutput(p, i).result = "throw"
    THEN FailedPass(p, i, isMount, op)
    ELSE CompletedPass(p, i, isMount, op)

-----------------------------------------------------------------------------
(* Steps *)

Init ==
    /\ phase = "init"
    /\ props = NoProps
    /\ id = ""
    /\ status = "idle"
    /\ messageOptions = [event |-> NoEvent, visible |-> FALSE]
    /\ pendingOptions = <<>>
    /\ pendingStatus = FALSE
    /\ timerRef = 0
    /\ timers = {}
    /\ output = NoOutput
    /\ calls = <<>>
    /\ last = Step("Init", "none", NoEvent, {}, {}, FALSE, {})
    /\ streak = <<>>
    /\ sync = FALSE
    /\ quiet = FALSE
    /\ periodFires = 0
    /\ autoToggles = 0

\* the first render of <Message {...p} />
Mount(p, i) ==
    /\ phase = "init"
    /\ RenderPass(p, i, TRUE, "Mount")

\* a re-render React scheduled for a queued setMessageOptions / setStatus
Render ==
    /\ phase = "mounted"
    /\ pendingOptions # <<>> \/ pendingStatus
    /\ RenderPass(props, id, FALSE, "Render")

\* the props that differ from q in one field
OneFieldChanged(q) ==
    ({[q EXCEPT !.visible = v] : v \in OptBool}
     \cup {[q EXCEPT !.defaultVisible = v] : v \in OptBool}
     \cup {[q EXCEPT !.duration = v] : v \in Durations}
     \cup {[q EXCEPT !.handlers = v] : v \in SUBSET EventType}
     \cup {[q EXCEPT !.onVisible = v] : v \in VisibleCallbacks}
     \cup {[q EXCEPT !.onClose = v] : v \in CloseCallbacks}
     \cup {[q EXCEPT !.renderContainer = v] : v \in BOOLEAN}) \ {q}

\* the parent re-renders <Message /> with one prop changed
SetProps(p) ==
    /\ phase = "mounted"
    /\ ~sync
    /\ ~quiet
    /\ p \in OneFieldChanged(props)
    /\ RenderPass(p, id, FALSE, "SetProps")

\* what one handler invocation did: the visible state it read, the one it
\* queued and the visible values it passed to onVisible
Invocation(before, queued, made) ==
    [before |-> before, queued |-> queued[1].visible,
     notified |-> [k \in 1..Len(SelectSeq(made, LAMBDA c : c.fn = "onVisible")) |->
                    SelectSeq(made, LAMBDA c : c.fn = "onVisible")[k].options.visible]]

\* the record of handler invocations that directly follow one another
Successive(sofar, inv) ==
    IF sofar = <<>> THEN <<inv>> ELSE <<sofar[Len(sofar)], inv>>

\* a bound handler runs: handleDefaultEvent(e => handleResponse(e, onClick)) etc.
\* React re-renders synchronously after a discrete event.
Event(name, e) ==
    /\ phase = "mounted"
    /\ ~sync
    /\ ~quiet
    /\ name \in output.main[1].handlers
    /\ timers' = ResponseTimers(timerRef, timers)
    /\ pendingOptions' = <<ResponseOptions(messageOptions.visible, e)>>
    /\ calls' = ResponseCalls(messageOptions.visible, props.onVisible, props.onClose,
                              e, name, name \in props.handlers)
    /\ sync' = TRUE
    /\ last' = Step("Event", name, e, timers, timers', FALSE, {})
    /\ streak' = Successive(streak, Invocation(messageOptions.visible, pendingOptions', calls'))
    /\ UNCHANGED <<phase, props, id, status, messageOptions, pendingStatus, timerRef,
                   output, quiet, periodFires, autoToggles>>

\* the host runs a pending timer's callback: handleResponse({type: 'NodeJS.Timeout'})
TimerFire(t) ==
    /\ t \in timers
    /\ ~sync
    /\ timers' = ResponseTimers(timerRef, timers \ {t})
    /\ pendingOptions' = IF phase = "mounted"
                         THEN <<ResponseOptions(t.visible, TimeoutEvent)>>
                         ELSE pendingOptions
    /\ calls' = ResponseCalls(t.visible, t.onVisible, t.onClose, TimeoutEvent,
                              "none", FALSE)
    /\ periodFires' = IF periodFires < 2 THEN periodFires + 1 ELSE periodFires
    /\ autoToggles' = IF quiet /\ autoToggles < 2 THEN autoToggles + 1 ELSE autoToggles
    /\ last' = Step("TimerFire", "none", TimeoutEvent, timers \ {t}, timers', FALSE, {})
    /\ streak' = <<>>
    /\ UNCHANGED <<phase, props, id, status, messageOptions, pendingStatus, timerRef,
                   output, sync, quiet>>

\* React unmounts the component: every effect's cleanup runs
Unmount ==
    /\ phase = "mounted"
    /\ ~sync
    /\ ~quiet
    /\ phase' = "unmounted"
    /\ timers' = TeardownTimers(timerRef, timers)
    /\ pendingOptions' = <<>>
    /\ pendingStatus' = FALSE
    /\ calls' = <<>>
    /\ last' = Step("Unmount", "none", NoEvent, timers, timers', FALSE, {})
    /\ streak' = <<>>
    /\ UNCHANGED <<props, id, status, messageOptions, timerRef, output, sync, quiet,
                   periodFires, autoToggles>>

\* from here on the caller neither interacts, nor changes props, nor unmounts
Quiesce ==
    /\ phase = "mounted"
    /\ ~sync
    /\ ~quiet
    /\ quiet' = TRUE
    /\ autoToggles' = 0
    /\ UNCHANGED <<phase, props, id, status, messageOptions, pendingOptions,
                   pendingStatus, timerRef, timers, output, calls, last, sync,
                   periodFires, streak>>

Next ==
    \/ \E p \in Props, i \in Ids : Mount(p, i)
    \/ Render
    \/ \E p \in OneFieldChanged(props) : SetProps(p)
    \/ \E name \in EventType, e \in UserEvents : Event(name, e)
    \/ \E t \in timers : TimerFire(t)
    \/ Unmount
    \/ Quiesce

Spec == Init /\ [][Next]_vars

\* React runs every scheduled render and the host runs every pending timer
FairSpec ==
    /\ Spec
    /\ WF_vars(Render)
    /\ WF_vars(\E t \in timers : TimerFire(t))

-----------------------------------------------------------------------------
(* Vocabulary of the properties *)

\* a render pass of any origin
IsPass == last.op \in {"Mount", "Render", "SetProps"}

\* nothing is queued: the effects of the last pass have settled
Settled == phase = "mounted" /\ pendingOptions = <<>> /\ ~pendingStatus /\ ~sync

\* the calls of the last step to the callback named fn
CallsTo(fn) == SelectSeq(calls, LAMBDA c : c.fn = fn)

-----------------------------------------------------------------------------
(* C1 *)

\* C1: one invocation of a bound interaction handler (onClick, onTouchEnd,
\* onPress) sets the visible state once, to the negation of the value before
\* the call, the re-render that follows it commits that value, and the
\* invocation calls the supplied onVisible exactly once, with a boolean
\* visible equal to the new state.
C1_ToggleOnce ==
    /\ [][(\E name \in EventType, e \in UserEvents : Event(name, e)) =>
            /\ pendingOptions' # <<>>
            /\ pendingOptions'[1].visible \in BOOLEAN
            /\ pendingOptions'[1].visible = ~messageOptions.visible
            /\ LET notified == SelectSeq(calls', LAMBDA c : c.fn = "onVisible") IN
               IF props.onVisible = "undefined" THEN notified = <<>>
               ELSE /\ Len(notified) = 1
                    /\ notified[1].callee = props.onVisible
                    /\ notified[1].options.visible = pendingOptions'[1].visible]_vars
    /\ [][(sync /\ Render) => messageOptions'.visible = ~messageOptions.visible]_vars

C1_Witness ==
    /\ last.op = "Event"
    /\ ~messageOptions.visible
    /\ Len(CallsTo("onVisible")) = 1
    /\ CallsTo("onVisible")[1].options.visible

-----------------------------------------------------------------------------
(* C2 *)

\* C2: in every step (user toggle, timer-fired toggle, reconciliation) the
\* supplied onClose is invoked right after onVisible, with the same options,
\* exactly when the notified visible value is false; a notification of
\* visible = true comes with no onClose call.
C2_CloseIffHidden ==
    /\ \A k \in 1..Len(calls) :
        /\ (calls[k].fn = "onVisible" /\ calls[k].options.visible) =>
                CallsTo("onClose") = <<>>
        /\ (calls[k].fn = "onVisible" /\ ~calls[k].options.visible
                /\ props.onClose # "undefined") =>
                /\ k < Len(calls)
                /\ calls[k + 1].fn = "onClose"
                /\ calls[k + 1].callee = props.onClose
                /\ calls[k + 1].options = calls[k].options
        /\ calls[k].fn = "onClose" =>
                /\ ~calls[k].options.visible
                /\ props.onVisible # "undefined" =>
                    /\ k > 1
                    /\ calls[k - 1].fn = "onVisible"
                    /\ calls[k - 1].options = calls[k].options
    /\ Len(CallsTo("onClose")) <= 1
    /\ (last.op \in {"Event", "TimerFire"} /\ props.onClose # "undefined"
            /\ ~pendingOptions[1].visible) => Len(CallsTo("onClose")) = 1

C2_Witness ==
    /\ last.op = "TimerFire"
    /\ Len(calls) = 2
    /\ calls[1].fn = "onVisible"
    /\ calls[2].fn = "onClose"
    /\ calls[1].options = calls[2].options
    /\ ~calls[1].options.visible

-----------------------------------------------------------------------------
(* C3 *)

\* the message is shown, reconciliation has settled and the caller stays away
ShownAndQuiet ==
    quiet /\ Settled /\ messageOptions.visible /\ status = "succeeded"

\* the message was hidden by exactly one timer-fired toggle
HiddenByOneAutoToggle ==
    /\ quiet
    /\ Settled
    /\ ~messageOptions.visible
    /\ timers = {}
    /\ autoToggles = 1

\* C3: once the message is visible with status succeeded and neither a user
\* toggle, a prop change nor an unmount occurs afterwards, the armed timer
\* eventually fires, the message becomes hidden and stays hidden, and that
\* auto-hide happened exactly once, with one onVisible(visible = false) and one
\* onClose.
C3_AutoHideOnce ==
    /\ ShownAndQuiet ~> [] HiddenByOneAutoToggle
    /\ [](quiet /\ last.op = "TimerFire" =>
            /\ Len(CallsTo("onVisible")) = (IF props.onVisible = "undefined" THEN 0 ELSE 1)
            /\ Len(CallsTo("onClose")) = (IF props.onClose = "undefined" THEN 0 ELSE 1)
            /\ \A k \in 1..Len(calls) : ~calls[k].options.visible)

C3_Witness ==
    /\ HiddenByOneAutoToggle
    /\ last.op = "Render"
    /\ messageOptions.event = TimeoutEvent

-----------------------------------------------------------------------------
(* C5 *)

\* C5: at most one auto-hide timer is pending in every reachable state; a
\* re-arm cancels the timer armed before it.
C5_OneTimer ==
    /\ Cardinality(timers) <= 1
    /\ \A t \in timers : t.handle = timerRef

C5_Witness ==
    /\ IsPass
    /\ last.cancelled = 1
    /\ last.armed
    /\ Cardinality(timers) = 1

-----------------------------------------------------------------------------
(* C6 *)

\* C6: a user toggle cancels the pending timer, so the timer that was pending
\* before it never fires, and between two changes of the visible state at most
\* one timer-originated toggle runs.
C6_ToggleCancels ==
    /\ last.op = "Event" => timers = {}
    /\ periodFires <= 1

C6_Witness ==
    /\ last.op = "Event"
    /\ last.cancelled = 1
    /\ messageOptions.visible

-----------------------------------------------------------------------------
(* C7 *)

\* C7: after the component is unmounted no timer is pending, so no
\* timer-originated toggle and no onVisible or onClose call follows the
\* unmount.
C7_NothingAfterUnmount ==
    phase = "unmounted" =>
        /\ timers = {}
        /\ last.op = "Unmount"
        /\ calls = <<>>

C7_Witness ==
    /\ phase = "unmounted"
    /\ last.cancelled = 1

-----------------------------------------------------------------------------
(* C4 *)

\* C4: from mount until status has become succeeded and reconciliation has
\* settled, no onVisible and no onClose is invoked, whatever the visible and
\* defaultVisible props are: neither the mounting pass nor the pass that
\* follows it and commits status = succeeded makes a call.
C4_SilentMount ==
    [][((\E p \in Props, i \in Ids : Mount(p, i)) \/ (last.op = "Mount" /\ Render))
            => calls' = <<>>]_vars

-----------------------------------------------------------------------------
(* C8 *)

\* the notification of an adopted value v
AdoptionCalls(v) ==
    (IF props'.onVisible # "undefined"
        THEN <<[fn |-> "onVisible", callee |-> props'.onVisible,
                options |-> [event |-> NoEvent, visible |-> v]]>>
        ELSE <<>>)
    \o
    (IF ~v /\ props'.onClose # "undefined"
        THEN <<[fn |-> "onClose", callee |-> props'.onClose,
                options |-> [event |-> NoEvent, visible |-> v]]>>
        ELSE <<>>)

\* C8 as stated: with a boolean visible prop and status succeeded, every render
\* pass that ends with the supplied visible different from the visible state,
\* however the difference arose, adopts the supplied value and fires onVisible
\* for it (and onClose when it is false).
C8_ReconcileEveryRender ==
    (IsPass /\ phase = "mounted" /\ status = "succeeded"
        /\ props.visible # Undefined /\ props.visible[1] # messageOptions.visible)
    => /\ pendingOptions = <<[event |-> NoEvent, visible |-> props.visible[1]]>>
       /\ props.onVisible # "undefined" =>
            /\ Len(CallsTo("onVisible")) = 1
            /\ CallsTo("onVisible")[1].options.visible = props.visible[1]
       /\ (props.onClose # "undefined" /\ ~props.visible[1]) =>
            Len(CallsTo("onClose")) = 1

\* C8 (amended): with a boolean visible prop and status succeeded, every render
\* pass in which visible, defaultVisible, status or the identity of onVisible or
\* onClose differs from the previous pass, and in which the supplied visible
\* differs from the visible state, queues the supplied value as the next state
\* and fires onVisible for it, then onClose when it is false.
C8_ReconcileOnChange ==
    [][(/\ Render \/ \E p \in OneFieldChanged(props) : SetProps(p)
        /\ phase' = "mounted"
        /\ \/ props'.visible # props.visible
           \/ props'.defaultVisible # props.defaultVisible
           \/ props'.onVisible # props.onVisible
           \/ props'.onClose # props.onClose
           \/ status' # status
        /\ status' = "succeeded"
        /\ props'.visible # Undefined
        /\ props'.visible[1] # messageOptions'.visible)
       => /\ pendingOptions' = <<[event |-> NoEvent, visible |-> props'.visible[1]]>>
          /\ calls' = AdoptionCalls(props'.visible[1])]_vars

C8_Witness ==
    /\ last.op = "SetProps"
    /\ status = "succeeded"
    /\ props.visible = Some(FALSE)
    /\ messageOptions.visible
    /\ pendingOptions = <<[event |-> NoEvent, visible |-> FALSE]>>
    /\ Len(calls) = 2
    /\ calls[1].fn = "onVisible"
    /\ calls[2].fn = "onClose"

-----------------------------------------------------------------------------
(* C9 *)

\* a prop read as a condition: undefined counts as false
Truthy(v) == v = Some(TRUE)

\* C9: once a render pass has settled, the visible value it handed to
\* renderMain and to renderContainer is the current visible state.
C9_RendersState ==
    (IsPass /\ Settled) =>
        /\ Truthy(output.main[1].visible) = messageOptions.visible
        /\ Truthy(output.container[1].visible) = messageOptions.visible

-----------------------------------------------------------------------------
(* C10 *)

\* C10: a render pass without renderContainer does not fail and returns the
\* output of renderMain; a pass with renderContainer calls it once, with
\* children equal to the output of renderMain and with the id renderMain got.
C10_ContainerOptional ==
    IsPass =>
        IF ~props.renderContainer
        THEN /\ phase = "mounted"
             /\ output.result = "main"
             /\ output.container = <<>>
        ELSE /\ output.result = "container"
             /\ Len(output.main) = 1
             /\ Len(output.container) = 1
             /\ output.container[1].children = [node |-> "main", props |-> output.main[1]]
             /\ output.container[1].id = output.main[1].id
             /\ output.main[1].id = id

-----------------------------------------------------------------------------
(* C11 *)

\* C11: two invocations of a bound interaction handler with nothing between
\* them but the first one's own re-render yield two alternating visible states,
\* the second returning visible to its value before the first, and two
\* onVisible notifications whose visible values negate each other.
C11_TwoToggles ==
    Len(streak) = 2 =>
        /\ streak[1].queued = ~streak[1].before
        /\ streak[2].queued = ~streak[1].queued
        /\ streak[2].queued = streak[1].before
        /\ props.onVisible # "undefined" =>
            /\ Len(streak[1].notified) = 1
            /\ Len(streak[2].notified) = 1
            /\ streak[2].notified[1] = ~streak[1].notified[1]
            /\ streak[1].notified[1] = streak[1].queued
            /\ streak[2].notified[1] = streak[2].queued

C11_Witness ==
    /\ Len(streak) = 2
    /\ last.op = "Event"
    /\ streak[1].notified = <<TRUE>>
    /\ streak[2].notified = <<FALSE>>

-----------------------------------------------------------------------------
(* C12 *)

-----------------------------------------------------------------------------
(* C13 *)

\* the visible state once the queued setMessageOptions is applied
LatestVisible == RenderedOptions.visible

\* C13: with status succeeded no change of the visible state is silent: a step
\* (user toggle, timer-fired toggle or reconciliation) that changes the visible
\* value calls the supplied onVisible with the new value in that same step.
C13_NoSilentChange ==
    [][(/\ phase = "mounted"
        /\ phase' = "mounted"
        /\ status' = "succeeded"
        /\ LatestVisible' # LatestVisible
        /\ props'.onVisible # "undefined")
       => \E k \in 1..Len(calls') :
            /\ calls'[k].fn = "onVisible"
            /\ calls'[k].callee = props'.onVisible
            /\ calls'[k].options.visible = LatestVisible']_vars

C13_Witness ==
    /\ last.op = "SetProps"
    /\ status = "succeeded"
    /\ ~messageOptions.visible
    /\ pendingOptions = <<[event |-> NoEvent, visible |-> TRUE]>>
    /\ Len(calls) = 1
    /\ calls[1].fn = "onVisible"
    /\ calls[1].options.visible

-----------------------------------------------------------------------------
(* C14 *)

\* C14: the first reconciliation pass (status idle) adopts the visible prop
\* whenever it is a boolean, and defaultVisible only when visible is not
\* supplied; with both supplied the adopted value is that of visible.
C14_VisibleFirst ==
    (last.op = "Mount" /\ phase = "mounted") =>
        pendingOptions =
            IF props.visible # Undefined
            THEN <<[event |-> NoEvent, visible |-> props.visible[1]]>>
            ELSE IF props.defaultVisible # Undefined
            THEN <<[event |-> NoEvent, visible |-> props.defaultVisible[1]]>>
            ELSE <<>>

-----------------------------------------------------------------------------
(* C15 *)

\* the calls of a toggle to hidden made by the timer callback
HideCalls ==
    (IF props.onVisible # "undefined"
        THEN <<[fn |-> "onVisible", callee |-> props.onVisible,
                options |-> [event |-> TimeoutEvent, visible |-> FALSE]]>>
        ELSE <<>>)
    \o
    (IF props.onClose # "undefined"
        THEN <<[fn |-> "onClose", callee |-> props.onClose,
                options |-> [event |-> TimeoutEvent, visible |-> FALSE]]>>
        ELSE <<>>)

\* C15: the timer callback always toggles to hidden: it runs only while the
\* visible state is true (never when the state is already hidden), sets it to
\* false and calls onVisible(visible = false), then onClose.
C15_TimerHides ==
    [][(\E t \in timers : TimerFire(t)) =>
            /\ messageOptions.visible
            /\ LatestVisible
            /\ pendingOptions' = <<[event |-> TimeoutEvent, visible |-> FALSE]>>
            /\ calls' = HideCalls]_vars

-----------------------------------------------------------------------------
(* C16 *)

\* C16: when the effects of a render pass have run, a timer is pending exactly
\* if the component is mounted, the visible state is true and status is
\* succeeded: none while the message is hidden, one whenever it has become
\* visible, by initial adoption, user toggle or reconciliation.
C16_TimerIffShown ==
    /\ IsPass =>
        (timers # {} <=>
            (phase = "mounted" /\ messageOptions.visible /\ status = "succeeded"))
    /\ phase # "mounted" => timers = {}

C16_Witness ==
    /\ last.op = "Render"
    /\ last.armed
    /\ timers # {}
    /\ messageOptions.visible
    /\ messageOptions.event = "e1"

-----------------------------------------------------------------------------
(* C17 *)

\* the notification a handler invocation owes to the callback fn, if supplied
Owed(fn, callee, due, options) ==
    IF due /\ callee # "undefined"
        THEN <<[fn |-> fn, callee |-> callee, options |-> options]>>
        ELSE <<>>

-----------------------------------------------------------------------------
(* C18 *)

\* neither visible nor defaultVisible is a boolean
Unopinionated(p) == p.visible = Undefined /\ p.defaultVisible = Undefined

\* mounted with neither prop a boolean and the visible state as constructed
Pristine ==
    /\ phase = "mounted"
    /\ Unopinionated(props)
    /\ messageOptions = [event |-> NoEvent, visible |-> FALSE]
    /\ pendingOptions = <<>>
    /\ timers = {}

\* C18: mounting with neither visible nor defaultVisible a boolean queues no
\* visible state, calls neither onVisible nor onClose and arms no timer, and
\* queues status succeeded; every later render pass that still has neither
\* prop a boolean, with no handler invocation in between, again sets nothing,
\* calls nothing and arms nothing, and commits status succeeded.
C18_Unopinionated ==
    [][/\ (phase = "init" /\ phase' = "mounted" /\ Unopinionated(props')) =>
            /\ Pristine'
            /\ calls' = <<>>
            /\ ~last'.armed
            /\ status' = "idle"
            /\ pendingStatus'
       /\ (/\ Pristine
           /\ Render \/ \E p \in OneFieldChanged(props) : SetProps(p)
           /\ phase' = "mounted"
           /\ Unopinionated(props')) =>
            /\ Pristine'
            /\ calls' = <<>>
            /\ ~last'.armed
            /\ status' = "succeeded"
            /\ ~pendingStatus']_vars

C18_Witness ==
    /\ Pristine
    /\ status = "succeeded"
    /\ last.op = "SetProps"
    /\ last.changed = {"onVisible"}
    /\ props.onClose # "undefined"
    /\ streak = <<>>

-----------------------------------------------------------------------------
(* C19 *)

\* C19: a render pass that re-runs the reconciliation effect (visible,
\* defaultVisible or the identity of onVisible or onClose changed) while the
\* supplied visible equals the visible state, and that commits no change of
\* the visible state or of status, leaves the visible value unchanged, calls
\* neither onVisible nor onClose, and leaves the pending timer as it is,
\* neither cancelled nor armed anew.
C19_EqualVisibleFrame ==
    [][(/\ \E p \in OneFieldChanged(props) : SetProps(p)
        /\ phase' = "mounted"
        /\ \/ props'.visible # props.visible
           \/ props'.defaultVisible # props.defaultVisible
           \/ props'.onVisible # props.onVisible
           \/ props'.onClose # props.onClose
        /\ status = "succeeded"
        /\ status' = status
        /\ messageOptions'.visible = messageOptions.visible
        /\ props'.visible = Some(messageOptions'.visible))
       => /\ RenderedOptions'.visible = messageOptions'.visible
          /\ calls' = <<>>
          /\ last'.cancelled = 0
          /\ ~last'.armed
          /\ timers' = timers]_vars

-----------------------------------------------------------------------------
(* C20 *)

\* C20: once status is succeeded, a re-render that changes the defaultVisible
\* prop while visible is not supplied leaves the visible state as it was and
\* calls neither onVisible nor onClose.
C20_DefaultIgnored ==
    [][(/\ \E p \in OneFieldChanged(props) : SetProps(p)
        /\ phase' = "mounted"
        /\ props'.defaultVisible # props.defaultVisible
        /\ props'.visible = Undefined
        /\ RenderedStatus = "succeeded")
       => /\ LatestVisible' = LatestVisible
          /\ pendingOptions' = <<>>
          /\ calls' = <<>>]_vars

C20_Witness ==
    /\ phase = "mounted"
    /\ last.op = "SetProps"
    /\ last.changed = {"defaultVisible"}
    /\ props.defaultVisible = Some(TRUE)
    /\ props.visible = Undefined
    /\ props.onVisible # "undefined"
    /\ status = "succeeded"
    /\ ~messageOptions.visible
    /\ pendingOptions = <<>>

====
